---------------------------- MODULE Spec2Model ----------------------------
(***************************************************************************)
(* Model of the dimmer overlay (dimmer_passthrough, 5-level and 20-level   *)
(* variants) and of the shell controllers that kill and respawn it.        *)
(*                                                                         *)
(* Spec     : one overlay process, statement by statement, started with    *)
(*            any short argument string, with or without a usable display  *)
(*            and shape extension, and killable from outside at any time.  *)
(* SpecCtl  : concurrent runs of dim_control.sh / dim_hotkeys.sh over a    *)
(*            process table of overlay processes.                          *)
(* SpecSeq  : the same scripts run one after the other.                    *)
(***************************************************************************)
EXTENDS Integers, Sequences, FiniteSets

VARIABLES variant, argv, displayOk, shapeExt,
          pc, level, branch, opacity, win, displayOpen,
          didDestroy, didClose, opacityWrites, exitStatus, killedAt,
          procs, invs

ovars == <<variant, argv, displayOk, shapeExt, pc, level, branch, opacity,
           win, displayOpen, didDestroy, didClose, opacityWrites,
           exitStatus, killedAt>>
cvars == <<procs, invs>>
vars  == <<ovars, cvars>>

(***************************************************************************)
(* Bounds                                                                  *)
(***************************************************************************)
\* longest command-line argument string enumerated
MaxArgLen == 2
\* number of controller script runs
MaxInv == 2

(***************************************************************************)
(* Program constants                                                       *)
(***************************************************************************)
MaxLevel5 == 5
MaxLevel20 == 20
DefaultLevel5 == 3
DefaultLevel20 == 10

Variants == {5, 20}
MaxLevelOf(v) == IF v = 5 THEN MaxLevel5 ELSE MaxLevel20
DefaultLevelOf(v) == IF v = 5 THEN DefaultLevel5 ELSE DefaultLevel20

(***************************************************************************)
(* Command-line arguments: strings are sequences of one-character strings. *)
(***************************************************************************)
DigitChars == {"0", "1", "2", "3", "4", "5", "6", "7", "8", "9"}
Alphabet == DigitChars \cup {" ", "+", "-", "x"}
ArgStrings == UNION {[1..n -> Alphabet] : n \in 0..MaxArgLen}
\* argv without argv[0]: no argument, or one argument
ArgVectors == {<<>>} \cup {<<s>> : s \in ArgStrings}

DigitVal(c) == CASE c = "0" -> 0 [] c = "1" -> 1 [] c = "2" -> 2 [] c = "3" -> 3
                 [] c = "4" -> 4 [] c = "5" -> 5 [] c = "6" -> 6 [] c = "7" -> 7
                 [] c = "8" -> 8 [] c = "9" -> 9

RECURSIVE SkipSpace(_)
SkipSpace(s) == IF s # <<>> /\ Head(s) = " " THEN SkipSpace(Tail(s)) ELSE s

RECURSIVE Digits(_, _)
Digits(s, acc) ==
  IF s = <<>> \/ Head(s) \notin DigitChars THEN acc
  ELSE Digits(Tail(s), acc * 10 + DigitVal(Head(s)))

\* atoi: leading white space, an optional sign, then the longest run of digits
Atoi(s) ==
  LET t == SkipSpace(s)
      signed == t # <<>> /\ Head(t) \in {"+", "-"}
      u == IF signed THEN Tail(t) ELSE t
      v == Digits(u, 0)
  IN IF signed /\ Head(t) = "-" THEN 0 - v ELSE v

\* int level = <default>; if (argc > 1) level = atoi(argv[1]);
ParseLevel(v, av) == IF Len(av) >= 1 THEN Atoi(av[1]) ELSE DefaultLevelOf(v)


\* variation: the lower clamp is missing
Clamp_noLower(l, max) == IF l > max THEN max ELSE l

\* if (level < 1) level = 1; if (level > MAX) level = MAX;
Clamp(l, max) ==
  LET a == IF l < 1 THEN 1 ELSE l
  IN IF a > max THEN max ELSE a

(***************************************************************************)
(* Unsigned machine words as little-endian byte sequences: 8 bytes for     *)
(* unsigned long long / unsigned long, 4 bytes for the CARD32 property,    *)
(* 16 bytes for the exact (unwrapped) product.                             *)
(***************************************************************************)
Zero(n) == [i \in 1..n |-> 0]

\* (unsigned long long) of a non-negative int
ToU64(n) == <<n % 256, (n \div 256) % 256, (n \div 65536) % 256,
              (n \div 16777216) % 256, 0, 0, 0, 0>>

\* the literal 0xAA000000 as an unsigned 64-bit word
AlphaWord(a) == <<0, 0, 0, a, 0, 0, 0, 0>>

\* 0xFF000000ULL
FullOpacity == AlphaWord(255)

Low(a, n) == SubSeq(a, 1, n)
Widen(a, n) == a \o Zero(n - Len(a))

RECURSIVE AddFrom(_, _, _, _)
\* a + b from byte i on with carry c, dropping the carry out of the top byte
AddFrom(a, b, i, c) ==
  IF i > Len(a) THEN <<>>
  ELSE LET t == a[i] + b[i] + c
       IN <<t % 256>> \o AddFrom(a, b, i + 1, t \div 256)
Add(a, b) == AddFrom(a, b, 1, 0)

RECURSIVE MulByteFrom(_, _, _, _)
\* a * k for one byte k, from byte i on with carry c
MulByteFrom(a, k, i, c) ==
  IF i > Len(a) THEN <<>>
  ELSE LET t == a[i] * k + c
       IN <<t % 256>> \o MulByteFrom(a, k, i + 1, t \div 256)

ShiftBytes(a, n) == SubSeq(Zero(n) \o a, 1, Len(a))

RECURSIVE MulFrom(_, _, _)
\* schoolbook a * b modulo 256^Len(a)
MulFrom(a, b, i) ==
  IF i > Len(b) THEN Zero(Len(a))
  ELSE IF b[i] = 0 THEN MulFrom(a, b, i + 1)
  ELSE Add(ShiftBytes(MulByteFrom(a, b[i], 1, 0), i - 1), MulFrom(a, b, i + 1))
Mul(a, b) == MulFrom(a, b, 1)

\* the product without wrap-around, in twice the width
MulExact(a, b) == Mul(Widen(a, 2 * Len(a)), Widen(b, 2 * Len(a)))

RECURSIVE DivFrom(_, _, _, _)
\* a / k (truncating) for a small k, long division from the top byte down
DivFrom(a, k, i, r) ==
  IF i = 0 THEN <<>>
  ELSE LET cur == r * 256 + a[i]
       IN DivFrom(a, k, i - 1, cur % k) \o <<cur \div k>>
DivSmall(a, k) == DivFrom(a, k, Len(a), 0)

IsZero(a) == \A i \in 1..Len(a) : a[i] = 0

(***************************************************************************)
(* Level to opacity                                                        *)
(***************************************************************************)
Branches == {"none", "case1", "case2", "case3", "case4", "case5", "default",
             "linear"}

\* which arm of the 5-level switch is taken
SwitchBranch(l) ==
  CASE l = 1 -> "case1" [] l = 2 -> "case2" [] l = 3 -> "case3"
    [] l = 4 -> "case4" [] l = 5 -> "case5" [] OTHER -> "default"


\* variation: the break statements are missing, every case falls through
OpacityTable_fallthrough(l) == AlphaWord(153)

\* switch(level) { case 1: opacity = 0x33000000; ... default: 0x99000000 }
OpacityTable(l) ==
  CASE l = 1 -> AlphaWord(51)
    [] l = 2 -> AlphaWord(102)
    [] l = 3 -> AlphaWord(153)
    [] l = 4 -> AlphaWord(204)
    [] l = 5 -> AlphaWord(255)
    [] OTHER -> AlphaWord(153)


\* variation: the product is formed in 32 bits and wraps before the division
OpacityLinear_narrow(l) ==
  DivSmall(Widen(Mul(Low(ToU64(l), 4), Low(FullOpacity, 4)), 8), MaxLevel20)

\* variation: the scale is 0xFFFFFFFF instead of 0xFF000000
OpacityLinear_fullscale(l) ==
  DivSmall(Mul(ToU64(l), <<255, 255, 255, 255, 0, 0, 0, 0>>), MaxLevel20)

\* variation: the division rounds to nearest instead of truncating
OpacityLinear_alphaFirst(l) ==
  AlphaWord((2 * l * 255 + MaxLevel20) \div (2 * MaxLevel20))

\* (unsigned long long)level * 0xFF000000ULL / 20ULL
OpacityLinear(l) == DivSmall(Mul(ToU64(l), FullOpacity), MaxLevel20)

OpacityOf(v, l) == IF v = 5 THEN OpacityTable(l) ELSE OpacityLinear(l)

\* XChangeProperty(..., XA_CARDINAL, 32, ...): the low 32 bits of the long
Card32(a) == Low(a, 4)

(***************************************************************************)
(* The overlay process, one action per statement of main()                 *)
(***************************************************************************)
PcValues == {"open", "create", "hint", "level", "opacity", "setprop", "shape",
             "map", "flush", "sync", "sleep", "destroy", "close", "return",
             "exited", "killed"}

NoWindow == [exists |-> FALSE, overrideRedirect |-> FALSE, type |-> "unset",
             opacity |-> <<>>, shape |-> "default", mapped |-> FALSE]

NoCtl == /\ procs = <<>>
         /\ invs = <<>>

Init ==
  /\ variant \in Variants
  /\ argv \in ArgVectors
  /\ displayOk \in BOOLEAN
  /\ shapeExt \in BOOLEAN
  /\ pc = "open"
  /\ level = 0
  /\ branch = "none"
  /\ opacity = <<>>
  /\ win = NoWindow
  /\ displayOpen = FALSE
  /\ didDestroy = FALSE
  /\ didClose = FALSE
  /\ opacityWrites = 0
  /\ exitStatus = -1
  /\ killedAt = "none"
  /\ NoCtl

\* variation: the result of XOpenDisplay is not checked
OpenDisplay_nocheck ==
  /\ pc = "open"
  /\ displayOpen' = displayOk
  /\ pc' = "create"
  /\ UNCHANGED <<variant, argv, displayOk, shapeExt, level, branch, opacity,
                 win, didDestroy, didClose, opacityWrites, exitStatus,
                 killedAt, cvars>>

\* Display *d = XOpenDisplay(NULL); if (!d) return 1;
OpenDisplay ==
  /\ pc = "open"
  /\ IF displayOk
       THEN /\ displayOpen' = TRUE
            /\ pc' = "create"
            /\ UNCHANGED exitStatus
       ELSE /\ pc' = "exited"
            /\ exitStatus' = 1
            /\ UNCHANGED displayOpen
  /\ UNCHANGED <<variant, argv, displayOk, shapeExt, level, branch, opacity,
                 win, didDestroy, didClose, opacityWrites, killedAt, cvars>>

\* Window w = XCreateWindow(..., CWOverrideRedirect | CWBackPixel, &attrs);
CreateWindow ==
  /\ pc = "create"
  /\ win' = [win EXCEPT !.exists = TRUE, !.overrideRedirect = TRUE]
  /\ pc' = "hint"
  /\ UNCHANGED <<variant, argv, displayOk, shapeExt, level, branch, opacity,
                 displayOpen, didDestroy, didClose, opacityWrites, exitStatus,
                 killedAt, cvars>>

\* XChangeProperty(d, w, window_type, XA_ATOM, 32, ..., &desktop_type, 1);
SetWindowType ==
  /\ pc = "hint"
  /\ win' = [win EXCEPT !.type = "_NET_WM_WINDOW_TYPE_DESKTOP"]
  /\ pc' = "level"
  /\ UNCHANGED <<variant, argv, displayOk, shapeExt, level, branch, opacity,
                 displayOpen, didDestroy, didClose, opacityWrites, exitStatus,
                 killedAt, cvars>>

\* int level = ...; if (argc > 1) level = atoi(argv[1]); the two clamping ifs
ComputeLevel ==
  /\ pc = "level"
  /\ level' = Clamp(ParseLevel(variant, argv), MaxLevelOf(variant))
  /\ pc' = "opacity"
  /\ UNCHANGED <<variant, argv, displayOk, shapeExt, branch, opacity, win,
                 displayOpen, didDestroy, didClose, opacityWrites, exitStatus,
                 killedAt, cvars>>

\* the switch (5-level) or the linear formula (20-level)
ComputeOpacity ==
  /\ pc = "opacity"
  /\ opacity' = OpacityOf(variant, level)
  /\ branch' = IF variant = 5 THEN SwitchBranch(level) ELSE "linear"
  /\ pc' = "setprop"
  /\ UNCHANGED <<variant, argv, displayOk, shapeExt, level, win, displayOpen,
                 didDestroy, didClose, opacityWrites, exitStatus, killedAt,
                 cvars>>

\* XChangeProperty(d, w, opacity_atom, XA_CARDINAL, 32, ..., &opacity, 1);
SetOpacity ==
  /\ pc = "setprop"
  /\ win' = [win EXCEPT !.opacity = Card32(opacity)]
  /\ opacityWrites' = opacityWrites + 1
  /\ pc' = "shape"
  /\ UNCHANGED <<variant, argv, displayOk, shapeExt, level, branch, opacity,
                 displayOpen, didDestroy, didClose, exitStatus, killedAt,
                 cvars>>

\* variation: the input shape is never applied
ApplyInputShape_skip ==
  /\ pc = "shape"
  /\ pc' = "map"
  /\ UNCHANGED <<variant, argv, displayOk, shapeExt, level, branch, opacity,
                 win, displayOpen, didDestroy, didClose, opacityWrites,
                 exitStatus, killedAt, cvars>>

\* if (XShapeQueryExtension(...)) XShapeCombineRegion(..., ShapeInput, empty)
ApplyInputShape ==
  /\ pc = "shape"
  /\ win' = IF shapeExt THEN [win EXCEPT !.shape = "empty"] ELSE win
  /\ pc' = "map"
  /\ UNCHANGED <<variant, argv, displayOk, shapeExt, level, branch, opacity,
                 displayOpen, didDestroy, didClose, opacityWrites, exitStatus,
                 killedAt, cvars>>

\* XMapWindow(d, w);
MapWindow ==
  /\ pc = "map"
  /\ win' = [win EXCEPT !.mapped = TRUE]
  /\ pc' = "flush"
  /\ UNCHANGED <<variant, argv, displayOk, shapeExt, level, branch, opacity,
                 displayOpen, didDestroy, didClose, opacityWrites, exitStatus,
                 killedAt, cvars>>

\* XFlush(d);
Flush ==
  /\ pc = "flush"
  /\ pc' = "sync"
  /\ UNCHANGED <<variant, argv, displayOk, shapeExt, level, branch, opacity,
                 win, displayOpen, didDestroy, didClose, opacityWrites,
                 exitStatus, killedAt, cvars>>

\* XSync(d, False);
Sync ==
  /\ pc = "sync"
  /\ pc' = "sleep"
  /\ UNCHANGED <<variant, argv, displayOk, shapeExt, level, branch, opacity,
                 win, displayOpen, didDestroy, didClose, opacityWrites,
                 exitStatus, killedAt, cvars>>

\* sleep(3600) runs to its end
SleepExpires ==
  /\ pc = "sleep"
  /\ pc' = "destroy"
  /\ UNCHANGED <<variant, argv, displayOk, shapeExt, level, branch, opacity,
                 win, displayOpen, didDestroy, didClose, opacityWrites,
                 exitStatus, killedAt, cvars>>

\* XDestroyWindow(d, w);
DestroyWindow ==
  /\ pc = "destroy"
  /\ win' = [win EXCEPT !.exists = FALSE, !.mapped = FALSE]
  /\ didDestroy' = TRUE
  /\ pc' = "close"
  /\ UNCHANGED <<variant, argv, displayOk, shapeExt, level, branch, opacity,
                 displayOpen, didClose, opacityWrites, exitStatus, killedAt,
                 cvars>>

\* XCloseDisplay(d);
CloseDisplay ==
  /\ pc = "close"
  /\ displayOpen' = FALSE
  /\ didClose' = TRUE
  /\ pc' = "return"
  /\ UNCHANGED <<variant, argv, displayOk, shapeExt, level, branch, opacity,
                 win, didDestroy, opacityWrites, exitStatus, killedAt, cvars>>

\* return 0;
Return0 ==
  /\ pc = "return"
  /\ exitStatus' = 0
  /\ pc' = "exited"
  /\ UNCHANGED <<variant, argv, displayOk, shapeExt, level, branch, opacity,
                 win, displayOpen, didDestroy, didClose, opacityWrites,
                 killedAt, cvars>>

\* variation: a handler catches the signal, releases the window and display
\* and exits 0
Signal_handler ==
  /\ pc \notin {"exited", "killed"}
  /\ killedAt' = pc
  /\ pc' = "killed"
  /\ win' = [win EXCEPT !.exists = FALSE, !.mapped = FALSE]
  /\ displayOpen' = FALSE
  /\ didDestroy' = TRUE
  /\ didClose' = TRUE
  /\ exitStatus' = 0
  /\ UNCHANGED <<variant, argv, displayOk, shapeExt, level, branch, opacity,
                 opacityWrites, cvars>>

\* A terminating signal from outside (pkill): there is no handler, so the
\* process ends where it stands; the server drops the connection's window.
Signal ==
  /\ pc \notin {"exited", "killed"}
  /\ killedAt' = pc
  /\ pc' = "killed"
  /\ win' = [win EXCEPT !.exists = FALSE, !.mapped = FALSE]
  /\ displayOpen' = FALSE
  /\ UNCHANGED <<variant, argv, displayOk, shapeExt, level, branch, opacity,
                 didDestroy, didClose, opacityWrites, exitStatus, cvars>>

Next ==
  \/ OpenDisplay
  \/ CreateWindow
  \/ SetWindowType
  \/ ComputeLevel
  \/ ComputeOpacity
  \/ SetOpacity
  \/ ApplyInputShape
  \/ MapWindow
  \/ Flush
  \/ Sync
  \/ SleepExpires
  \/ DestroyWindow
  \/ CloseDisplay
  \/ Return0
  \/ Signal

Spec == Init /\ [][Next]_vars

TypeOK ==
  /\ variant \in Variants
  /\ pc \in PcValues
  /\ level \in 0..MaxLevel20
  /\ branch \in Branches
  /\ exitStatus \in {-1, 0, 1}
  /\ opacityWrites \in 0..1

(***************************************************************************)
(* Properties of the overlay process                                       *)
(***************************************************************************)
Rank(p) ==
  CASE p = "open" -> 0 [] p = "create" -> 1 [] p = "hint" -> 2
    [] p = "level" -> 3 [] p = "opacity" -> 4 [] p = "setprop" -> 5
    [] p = "shape" -> 6 [] p = "map" -> 7 [] p = "flush" -> 8
    [] p = "sync" -> 9 [] p = "sleep" -> 10 [] p = "destroy" -> 11
    [] p = "close" -> 12 [] p = "return" -> 13 [] p = "exited" -> 14

\* the number of statements of main() that have been executed
Reached ==
  IF pc = "killed" THEN Rank(killedAt)
  ELSE IF pc = "exited" /\ exitStatus = 1 THEN 0
  ELSE Rank(pc)

Min2(a, b) == IF a < b THEN a ELSE b
Max2(a, b) == IF a > b THEN a ELSE b

\* the integer the command line asks for, with the documented defaults
Requested ==
  IF argv = <<>> THEN (IF variant = 5 THEN 3 ELSE 10) ELSE Atoi(argv[1])
MaxRequested == IF variant = 5 THEN 5 ELSE 20

\* C1: once the level is computed it is max(1, min(L, MAX_LEVEL)) for the
\* parsed (or default) L: always in [1, MAX_LEVEL], L itself when in range,
\* MAX_LEVEL above the range, 1 below it.
C1_ClampedLevel ==
  Reached > Rank("level") =>
    /\ level = Max2(1, Min2(Requested, MaxRequested))
    /\ level \in 1..MaxRequested
    /\ (Requested \in 1..MaxRequested => level = Requested)
    /\ (Requested > MaxRequested => level = MaxRequested)
    /\ (Requested < 1 => level = 1)

C1_Witness ==
  /\ pc = "setprop"
  /\ variant = 20
  /\ argv = <<<<"-", "7">>>>
  /\ level = 1

\* C2: in the 5-level variant the property written is 0x33000000,
\* 0x66000000, 0x99000000, 0xCC000000, 0xFF000000 for level 1..5 and the
\* switch's default arm is never the one taken.
C2_FiveLevelTable ==
  variant = 5 =>
    /\ Reached > Rank("opacity") =>
         /\ branch \in {"case1", "case2", "case3", "case4", "case5"}
         /\ branch = SwitchBranch(level)
    /\ Reached > Rank("setprop") =>
         /\ level \in 1..5
         /\ win.opacity = <<0, 0, 0, 51 * level>>

C2_Witness ==
  /\ variant = 5
  /\ pc = "shape"
  /\ level = 4
  /\ win.opacity = <<0, 0, 0, 204>>

\* round(a / k) for an exact wide a: floor((2a + k) / 2k)
RoundDiv(a, k) ==
  DivSmall(Add(Mul(a, Widen(<<2>>, Len(a))), Widen(<<k>>, Len(a))), 2 * k)

\* C3: in the 20-level variant opacity = round(level * 0xFF000000 / 20) for
\* every level 1..20, opacity(20) = 0xFF000000, the product fits in 64 bits
\* and the opacity fits in 32 bits.
C3_LinearOpacity ==
  (variant = 20 /\ Reached > Rank("opacity")) =>
    LET exact == MulExact(ToU64(level), FullOpacity)
    IN /\ level \in 1..20
       /\ IsZero(SubSeq(exact, 9, 16))
       /\ Widen(opacity, 16) = RoundDiv(exact, 20)
       /\ IsZero(SubSeq(opacity, 5, 8))
       /\ (level = 20 => opacity = <<0, 0, 0, 255, 0, 0, 0, 0>>)
       /\ (Reached > Rank("setprop") => Widen(win.opacity, 8) = opacity)

C3_Witness ==
  /\ variant = 20
  /\ pc = "shape"
  /\ level = 1
  /\ win.opacity = <<0, 0, 192, 12>>

\* C4 as stated: the three low bytes of the property written are zero for
\* every level of either variant.
C4_RgbBytesZero ==
  Reached > Rank("setprop") =>
    /\ win.opacity[1] = 0
    /\ win.opacity[2] = 0
    /\ win.opacity[3] = 0
    /\ win.opacity[4] # 0

\* C4 amended: the low 24 bits are zero for every level of the 5-level
\* variant; in the 20-level variant the low 22 bits are zero and the low 24
\* bits are zero exactly when the level is a multiple of 4; the top byte is
\* non-zero in every case.
C4_LowBits ==
  Reached > Rank("setprop") =>
    /\ win.opacity[1] = 0
    /\ win.opacity[2] = 0
    /\ win.opacity[4] # 0
    /\ (variant = 5 => win.opacity[3] = 0)
    /\ (variant = 20 =>
          /\ win.opacity[3] \in {0, 64, 128, 192}
          /\ (win.opacity[3] = 0 <=> level % 4 = 0))

C4_Witness ==
  /\ variant = 20
  /\ pc = "map"
  /\ level = 7
  /\ win.opacity[3] = 64

\* C5 as stated: in the 20-level variant the top byte of the property is
\* round(level * 255 / 20).
C5_AlphaRounded ==
  (variant = 20 /\ Reached > Rank("setprop")) =>
    win.opacity[4] = (2 * level * 255 + 20) \div 40

\* C5 amended: in the 20-level variant the top byte of the property is
\* floor(level * 255 / 20).
C5_AlphaTruncated ==
  (variant = 20 /\ Reached > Rank("setprop")) =>
    win.opacity[4] = (level * 255) \div 20

C5_Witness ==
  /\ variant = 20
  /\ pc = "flush"
  /\ level = 2
  /\ win.opacity[4] = 25

\* C6: a display that cannot be opened ends the process with status 1 and
\* nothing else done; no other path gives a non-zero status; without the
\* shape extension the window is still mapped and the timeout exit is 0.
C6_DisplayFailure ==
  /\ ~displayOk =>
       /\ pc \in {"open", "exited", "killed"}
       /\ Reached = 0
       /\ win = NoWindow
       /\ opacityWrites = 0
       /\ ~didDestroy /\ ~didClose /\ ~displayOpen
       /\ (pc = "exited" => exitStatus = 1)
  /\ exitStatus \notin {-1, 0} => (~displayOk /\ exitStatus = 1)
  /\ (displayOk /\ ~shapeExt) =>
       /\ (pc \in {"flush", "sync", "sleep", "destroy"} => win.mapped)
       /\ (pc = "exited" => exitStatus = 0)

C6_Witness ==
  /\ ~displayOk
  /\ pc = "exited"
  /\ exitStatus = 1

\* C7 as stated: exit 0 comes after destroy then close; a process ended by
\* a signal, whenever it arrives, has executed neither and has no status 0.
C7_ShutdownAnySignal ==
  /\ exitStatus = 0 => (didDestroy /\ didClose /\ pc = "exited")
  /\ didClose => didDestroy
  /\ pc = "killed" => (~didDestroy /\ ~didClose /\ exitStatus # 0)

\* C7 amended: exit 0 comes after destroy then close, which come after the
\* wait; a process ended by a signal that arrives before the wait has
\* expired has executed neither, and a process ended by a signal never has
\* status 0.
C7_Shutdown ==
  /\ exitStatus = 0 => (didDestroy /\ didClose /\ pc = "exited")
  /\ didClose => didDestroy
  /\ didDestroy => Reached > Rank("destroy")
  /\ pc = "killed" => exitStatus # 0
  /\ (pc = "killed" /\ Rank(killedAt) <= Rank("sleep")) =>
       (~didDestroy /\ ~didClose)

C7_Witness ==
  /\ pc = "killed"
  /\ killedAt = "sleep"
  /\ ~didDestroy
  /\ ~win.exists

\* the property value the level stands for, in closed form
ExpectedCard32 ==
  IF variant = 5 THEN <<0, 0, 0, 51 * level>>
  ELSE <<0, 0, ((51 * level) % 4) * 64, (51 * level) \div 4>>

\* C9: whenever the window is mapped the type hint and the opacity are set,
\* the opacity is the one the level stands for and, with the shape
\* extension, the input shape is empty; the opacity is written once, before
\* the map, and nothing after it changes it.
C9_MappedState ==
  /\ win.mapped =>
       /\ win.type = "_NET_WM_WINDOW_TYPE_DESKTOP"
       /\ win.overrideRedirect
       /\ win.opacity = ExpectedCard32
       /\ opacityWrites = 1
       /\ (shapeExt => win.shape = "empty")
  /\ Reached > Rank("setprop") =>
       /\ opacityWrites = 1
       /\ win.opacity = ExpectedCard32
  /\ Reached <= Rank("setprop") =>
       /\ opacityWrites = 0
       /\ ~win.mapped

C9_Witness ==
  /\ pc = "sleep"
  /\ win.mapped
  /\ shapeExt
  /\ win.shape = "empty"
  /\ variant = 20
  /\ level = 13

(***************************************************************************)
(* The controllers: dim_control.sh and dim_hotkeys.sh.  A run of a script  *)
(* is a list of commands executed in order; runs interleave freely.        *)
(* procs is the process table of overlay processes, in fork order.         *)
(***************************************************************************)
Scripts == {"dim_control", "dim_hotkeys"}
\* first arguments tried: each script's own words, none, and a word that
\* neither script knows
ArgsOf(script) ==
  IF script = "dim_control"
    THEN {"1", "2", "3", "4", "5", "off", "", "other"}
    ELSE {"ultra", "light", "dark", "off", "", "other"}

PkillCmd == [op |-> "pkill", arg |-> <<>>, text |-> ""]
SpawnCmd(a) == [op |-> "spawn", arg |-> <<a>>, text |-> ""]
EchoCmd(t) == [op |-> "echo", arg |-> <<>>, text |-> t]

\* variation: dim_control.sh kills only inside its recognised cases
Commands_killInCases(script, a) ==
  IF script = "dim_control"
    THEN CASE a \in {"1", "2", "3", "4", "5"} ->
                <<PkillCmd, SpawnCmd(a), EchoCmd("level")>>
           [] a = "off" -> <<PkillCmd, EchoCmd("off")>>
           [] OTHER -> <<EchoCmd("usage")>>
    ELSE CASE a = "ultra" -> <<PkillCmd, SpawnCmd("5")>>
           [] a = "light" -> <<PkillCmd, SpawnCmd("1")>>
           [] a = "dark" -> <<PkillCmd, SpawnCmd("3")>>
           [] a = "off" -> <<PkillCmd>>
           [] OTHER -> <<>>

\* the commands a script executes for its first argument a
Commands(script, a) ==
  IF script = "dim_control"
    THEN <<PkillCmd>> \o
         (CASE a \in {"1", "2", "3", "4", "5"} ->
                 <<SpawnCmd(a), EchoCmd("level")>>
            [] a = "off" -> <<EchoCmd("off")>>
            [] OTHER -> <<EchoCmd("usage")>>)
    ELSE CASE a = "ultra" -> <<PkillCmd, SpawnCmd("5")>>
           [] a = "light" -> <<PkillCmd, SpawnCmd("1")>>
           [] a = "dark" -> <<PkillCmd, SpawnCmd("3")>>
           [] a = "off" -> <<PkillCmd>>
           [] OTHER -> <<>>

NewInv(script, a) ==
  [script |-> script, arg |-> a, ip |-> 1, pkilled |-> FALSE, sent |-> {},
   child |-> 0, out |-> ""]

NewProc(av) == [st |-> "forked", argv |-> av, sig |-> FALSE]

InvDone(i) == invs[i].ip > Len(Commands(invs[i].script, invs[i].arg))
CurCmd(i) == Commands(invs[i].script, invs[i].arg)[invs[i].ip]

\* pkill -f dimmer_passthrough matches the command line of a process that
\* has exec'ed the overlay, not the shell child that is about to
Matched == {p \in DOMAIN procs : procs[p].st = "running"}
Alive == {p \in DOMAIN procs : procs[p].st \in {"forked", "running"}}

\* the level an overlay of the process table runs with (5-level binary)
LevelOfProc(p) == Clamp(ParseLevel(5, procs[p].argv), MaxLevelOf(5))

InitCtl ==
  /\ variant = 5
  /\ argv = <<>>
  /\ displayOk = TRUE
  /\ shapeExt = TRUE
  /\ pc = "open"
  /\ level = 0
  /\ branch = "none"
  /\ opacity = <<>>
  /\ win = NoWindow
  /\ displayOpen = FALSE
  /\ didDestroy = FALSE
  /\ didClose = FALSE
  /\ opacityWrites = 0
  /\ exitStatus = -1
  /\ killedAt = "none"
  /\ invs = <<>>
  \* no overlay yet, or the one an earlier "dim_control.sh 3" left running
  /\ procs \in {<<>>, <<[NewProc(<<<<"3">>>>) EXCEPT !.st = "running"]>>}

\* a user (or a hotkey) starts a script
Invoke ==
  /\ Len(invs) < MaxInv
  /\ \E script \in Scripts :
       \E a \in ArgsOf(script) : invs' = Append(invs, NewInv(script, a))
  /\ UNCHANGED <<procs, ovars>>

\* pkill -f dimmer_passthrough: SIGTERM to every matching process
Pkill ==
  \E i \in DOMAIN invs :
    /\ ~InvDone(i)
    /\ CurCmd(i).op = "pkill"
    /\ procs' = [p \in DOMAIN procs |->
                   IF p \in Matched THEN [procs[p] EXCEPT !.sig = TRUE]
                   ELSE procs[p]]
    /\ invs' = [invs EXCEPT ![i].ip = @ + 1, ![i].pkilled = TRUE,
                            ![i].sent = @ \cup Matched]
    /\ UNCHANGED ovars

\* dimmer_passthrough N & : the shell forks a child for the background job
Spawn ==
  \E i \in DOMAIN invs :
    /\ ~InvDone(i)
    /\ CurCmd(i).op = "spawn"
    /\ procs' = Append(procs, NewProc(<<CurCmd(i).arg>>))
    /\ invs' = [invs EXCEPT ![i].ip = @ + 1, ![i].child = Len(procs) + 1]
    /\ UNCHANGED ovars

\* echo "..."
Echo ==
  \E i \in DOMAIN invs :
    /\ ~InvDone(i)
    /\ CurCmd(i).op = "echo"
    /\ invs' = [invs EXCEPT ![i].ip = @ + 1, ![i].out = CurCmd(i).text]
    /\ UNCHANGED <<procs, ovars>>

\* the forked child execs the overlay binary
Exec ==
  \E p \in DOMAIN procs :
    /\ procs[p].st = "forked"
    /\ procs' = [procs EXCEPT ![p].st = "running"]
    /\ UNCHANGED <<invs, ovars>>

\* a pending SIGTERM ends the overlay (it installs no handler)
Deliver ==
  \E p \in DOMAIN procs :
    /\ procs[p].st = "running"
    /\ procs[p].sig
    /\ procs' = [procs EXCEPT ![p].st = "dead", ![p].sig = FALSE]
    /\ UNCHANGED <<invs, ovars>>

\* the overlay ends by itself: return 1 without a display, return 0 after
\* the sleep
SelfExit ==
  \E p \in DOMAIN procs :
    /\ procs[p].st = "running"
    /\ procs' = [procs EXCEPT ![p].st = "dead", ![p].sig = FALSE]
    /\ UNCHANGED <<invs, ovars>>

NextCtl ==
  \/ Invoke
  \/ Pkill
  \/ Spawn
  \/ Echo
  \/ Exec
  \/ Deliver
  \/ SelfExit

SpecCtl == InitCtl /\ [][NextCtl]_vars

\* the scripts run one at a time (one terminal, one command after the
\* other); the overlays they start and signal still run on their own
InvokeSeq ==
  /\ \A i \in DOMAIN invs : InvDone(i)
  /\ Invoke

NextSeq ==
  \/ InvokeSeq
  \/ Pkill
  \/ Spawn
  \/ Echo
  \/ Exec
  \/ Deliver
  \/ SelfExit

SpecSeq == InitCtl /\ [][NextSeq]_vars

(***************************************************************************)
(* Properties of the controllers                                           *)
(***************************************************************************)
\* every script run has finished and every signal sent has taken effect
Quiescent ==
  /\ \A i \in DOMAIN invs : InvDone(i)
  /\ \A p \in DOMAIN procs :
       /\ procs[p].st # "forked"
       /\ ~(procs[p].st = "running" /\ procs[p].sig)

\* the level the run asks for, 0 when it asks for none
TargetOf(script, a) ==
  IF script = "dim_control"
    THEN (IF a \in {"1", "2", "3", "4", "5"} THEN Atoi(<<a>>) ELSE 0)
    ELSE (CASE a = "ultra" -> 5 [] a = "light" -> 1 [] a = "dark" -> 3
            [] OTHER -> 0)

\* C8: in every quiescent state at most one overlay is alive, and it runs
\* with the level of the last script run when that run asked for a level.
C8_AtMostOneOverlay ==
  Quiescent =>
    /\ Cardinality(Alive) <= 1
    /\ \A p \in Alive :
         (invs # <<>> /\
          TargetOf(invs[Len(invs)].script, invs[Len(invs)].arg) # 0) =>
           LevelOfProc(p) =
             TargetOf(invs[Len(invs)].script, invs[Len(invs)].arg)

Unrecognised(i) ==
  IF invs[i].script = "dim_control"
    THEN invs[i].arg \notin {"1", "2", "3", "4", "5"}
    ELSE invs[i].arg \notin {"ultra", "light", "dark", "off"}

C10_State ==
  \A i \in DOMAIN invs :
    /\ (invs[i].script = "dim_control" /\ invs[i].ip > 1) => invs[i].pkilled
    /\ (invs[i].script = "dim_control" /\ InvDone(i) /\ Unrecognised(i)) =>
         /\ invs[i].pkilled
         /\ invs[i].child = 0
         /\ invs[i].out \in {"off", "usage"}
         /\ \A p \in invs[i].sent :
              procs[p].st = "dead" \/ procs[p].sig
    /\ (invs[i].script = "dim_hotkeys" /\ Unrecognised(i)) =>
         /\ InvDone(i)
         /\ ~invs[i].pkilled
         /\ invs[i].sent = {}
         /\ invs[i].child = 0
    /\ (invs[i].script = "dim_hotkeys" /\ ~Unrecognised(i) /\ InvDone(i)) =>
         invs[i].pkilled

\* the first command of a dim_control.sh run signals every running overlay
C10_Step ==
  \A i \in DOMAIN invs :
    (invs[i].script = "dim_control" /\ invs[i].ip = 1 /\ invs'[i].ip = 2) =>
      /\ \A p \in DOMAIN procs : procs[p].st = "running" => procs'[p].sig
      /\ Len(procs') = Len(procs)

\* C10: dim_control.sh kills before it looks at its argument, so 'off', no
\* argument and an unrecognised argument terminate the running overlay and
\* start none; dim_hotkeys.sh kills only in its recognised cases and does
\* nothing at all for any other argument.
C10_KillBeforeCase == []C10_State /\ [][C10_Step]_vars

C10_Witness ==
  /\ Len(invs) = 1
  /\ invs[1].script = "dim_control"
  /\ invs[1].arg = "other"
  /\ InvDone(1)
  /\ invs[1].out = "usage"
  /\ Len(procs) = 1
  /\ procs[1].st = "dead"
  /\ invs[1].sent = {1}
=============================================================================
